---- MODULE Spec2Model ----
(***************************************************************************)
(* Model of packages/vue/src/useForm.ts: the useForm controller, its       *)
(* triggerFormValidationManual pass, the message formatter and the         *)
(* exported predicates.                                                    *)
(*                                                                         *)
(* JavaScript values are tagged records; the tag t is what typeof /        *)
(* Array.isArray / instanceof Date tell apart.  A JavaScript object used   *)
(* as a record (form, rules, labels, errorMessages) is a TLA+ function     *)
(* from its own keys to values; an absent one is Undefined.  A rule set    *)
(* is the sequence of its entries in insertion order, since                *)
(* Object.entries(fieldRules) visits them in that order.                   *)
(***************************************************************************)
EXTENDS Integers, Sequences, FiniteSets, TLC

VARIABLES
  form,                 \* unref(form): the values record, or Undefined
  rules,                \* unref(rules): the rule table, or Undefined
  labels,               \* unref(labels): the label table, or Undefined
  errorMessages,        \* errorMessages.value
  generalErrorMessage,  \* generalErrorMessage.value
  isFormValid,          \* isFormValid.value
  validationMessages,   \* the local map built by the latest validation pass
  lastOp,               \* the operation that ran last
  passes                \* validation passes in a row since any other operation

vars == <<form, rules, labels, errorMessages, generalErrorMessage,
          isFormValid, validationMessages, lastOp, passes>>

---------------------------------------------------------------------------
(* Bounds *)

\* longest rule set (number of entries) drawn for a field
MaxRules == 2
\* longest message array handed to setErrorMessage
MaxErrors == 2
\* passes in a row that are counted; further ones leave the count there
MaxPasses == 2

---------------------------------------------------------------------------
(* JavaScript values *)

Undefined == [t |-> "undefined"]
Null == [t |-> "null"]
Str(s) == [t |-> "string", s |-> s]
Num(n) == [t |-> "number", n |-> n]
Bool(b) == [t |-> "boolean", b |-> b]
Arr(a) == [t |-> "array", a |-> a]
DateOf(valid) == [t |-> "date", valid |-> valid]
Fn(f) == [t |-> "function", f |-> f]

EmptyObject == <<>>

\* !!value
Truthy(value) ==
  CASE value.t = "undefined" -> FALSE
    [] value.t = "null" -> FALSE
    [] value.t = "string" -> value.s # ""
    [] value.t = "number" -> value.n # 0
    [] value.t = "boolean" -> value.b
    [] OTHER -> TRUE    \* arrays (empty ones too), dates and functions are objects

\* obj && key in obj && obj[key] : the entry when it is there and truthy
HasTruthy(obj, key) ==
  /\ obj # Undefined
  /\ key \in DOMAIN obj
  /\ Truthy(obj[key])

---------------------------------------------------------------------------
(* Predicate library *)

\* emailRegex.test(s) on the strings of StringValues below: of these only
\* "a@b.co" has a local part, an @ and a dotted domain with a 2+ letter end.
emailRegexTest(s) == s \in {"a@b.co"}

email(value) ==
  /\ Truthy(value)
  /\ value.t = "string"
  /\ emailRegexTest(value.s)

required(value) ==
  IF value.t = "array" THEN Len(value.a) # 0
  ELSE IF value.t \in {"undefined", "null"} THEN FALSE
  ELSE IF value.t = "boolean" THEN TRUE
  ELSE IF value.t = "date" THEN value.valid
  ELSE IF value.t = "string" THEN Len(value.s) # 0
  ELSE TRUE   \* String(number) is never empty

\* ruleValue(value) for a function-valued rule; constTrue and constFalse are
\* caller-supplied predicates () => true and () => false.
Apply(f, value) ==
  CASE f = "email" -> email(value)
    [] f = "required" -> required(value)
    [] f = "constTrue" -> TRUE
    [] f = "constFalse" -> FALSE

---------------------------------------------------------------------------
(* Message formatter *)

RECURSIVE NatToString(_)
NatToString(n) ==
  LET digit == <<"0", "1", "2", "3", "4", "5", "6", "7", "8", "9">>
  IN IF n < 10 THEN digit[n + 1]
     ELSE NatToString(n \div 10) \o digit[(n % 10) + 1]

\* `${param}`
TemplateString(param) ==
  CASE param.t = "undefined" -> "undefined"
    [] param.t = "string" -> param.s
    [] param.t = "number" -> NatToString(param.n)

\* label || 'field'
LabelOrField(label) == IF Truthy(label) THEN label.s ELSE "field"

getFieldErrorMessage(label, errorType, param) ==
  CASE errorType = "required" ->
         "The " \o LabelOrField(label) \o " is required"
    [] errorType = "email" ->
         "The " \o LabelOrField(label) \o " must a valid email address."
    [] errorType = "numeric" ->
         "The " \o LabelOrField(label) \o " must be a valid number."
    [] errorType = "maxLength" ->
         "The " \o LabelOrField(label) \o " cannot have more than "
           \o TemplateString(param) \o " characters."
    [] errorType = "minLength" ->
         "The " \o LabelOrField(label) \o " must have "
           \o TemplateString(param) \o " or more characters."
    [] OTHER ->
         "The " \o LabelOrField(label) \o " is invalid"

---------------------------------------------------------------------------
(* Rule sets and records *)

\* a rule set { key: value, ... } as the sequence of its entries
RuleSet(entries) == [t |-> "object", entries |-> entries]

\* fieldRules[name]: the value of the entry called name, undefined without one
RuleValue(fieldRules, name) ==
  IF \E i \in 1..Len(fieldRules.entries) : fieldRules.entries[i].key = name
  THEN LET i == CHOOSE j \in 1..Len(fieldRules.entries) :
                  fieldRules.entries[j].key = name
       IN fieldRules.entries[i].value
  ELSE Undefined

\* obj[key] = v
Assign(obj, key, v) ==
  [k \in (DOMAIN obj) \cup {key} |-> IF k = key THEN v ELSE obj[k]]

\* (rulesList && rulesList[key] && key in rulesList) ? rulesList[key] : undefined
fieldRulesOf(rulesList, key) ==
  IF HasTruthy(rulesList, key) THEN rulesList[key] ELSE Undefined

\* (labelsName && key in labelsName && labelsName[key]) ? labelsName[key] : undefined
labelOf(labelsName, key) ==
  IF HasTruthy(labelsName, key) THEN labelsName[key] ELSE Undefined

---------------------------------------------------------------------------
(* Rule evaluator: the body of triggerFormValidationManual *)

\* isFieldRequired as it would be were requiredIf or-ed with the required flag
\* instead of overriding it
isFieldRequiredEither(fieldRules, value) ==
  \/ Truthy(RuleValue(fieldRules, "required"))
  \/ /\ RuleValue(fieldRules, "requiredIf").t = "function"
     /\ Apply(RuleValue(fieldRules, "requiredIf").f, value)

\* let isFieldRequired = !!fieldRules.required, overridden by a function requiredIf
isFieldRequired(fieldRules, value) ==
  IF RuleValue(fieldRules, "requiredIf").t = "function"
  THEN Apply(RuleValue(fieldRules, "requiredIf").f, value)
  ELSE Truthy(RuleValue(fieldRules, "required"))

\* One call of the inner forEach callback, for the rule entry ruleEntry of the
\* field key.  st holds what the callback closes over and writes: the field's
\* local validationMessage and the pass's validationMessages map.
ruleCallback(st, key, value, fieldRules, labelsName, ruleEntry) ==
  LET ruleKey == ruleEntry.key
      ruleValue == ruleEntry.value
      label == labelOf(labelsName, key)
      fieldErrorMessage == Str(getFieldErrorMessage(label, ruleKey, Undefined))
  IN IF (isFieldRequired(fieldRules, value) /\ ~Truthy(value))
          \/ Truthy(st.validationMessage)
     THEN [validationMessage |-> fieldErrorMessage,
           validationMessages |->
             Assign(st.validationMessages, key, fieldErrorMessage)]
     ELSE IF ruleKey \in {"required", "requiredIf"}
     THEN st
     ELSE IF ruleValue.t = "function" /\ ~Apply(ruleValue.f, value)
     THEN [validationMessage |-> st.validationMessage,
           validationMessages |->
             Assign(st.validationMessages, key, st.validationMessage)]
     ELSE st

\* Object.entries(fieldRules).forEach(...) from entry i on
RECURSIVE forEachRule(_, _, _, _, _, _)
forEachRule(st, key, value, fieldRules, labelsName, i) ==
  IF i > Len(fieldRules.entries) THEN st
  ELSE forEachRule(
         ruleCallback(st, key, value, fieldRules, labelsName,
                      fieldRules.entries[i]),
         key, value, fieldRules, labelsName, i + 1)

\* One call of the outer forEach callback: the field key with its value.
\* messages is validationMessages so far; validationMessage starts unset.
fieldCallback(messages, key, value, rulesList, labelsName) ==
  LET fieldRules == fieldRulesOf(rulesList, key)
  IN IF ~Truthy(fieldRules) THEN messages
     ELSE forEachRule([validationMessage |-> Undefined,
                       validationMessages |-> messages],
                      key, value, fieldRules, labelsName, 1).validationMessages

\* formValue || {}
formEntries(formValue) == IF formValue = Undefined THEN EmptyObject ELSE formValue

\* Object.entries(formValue || {}).forEach(...) over the keys still to visit
RECURSIVE forEachField(_, _, _, _, _)
forEachField(messages, keys, entries, rulesList, labelsName) ==
  IF keys = {} THEN messages
  ELSE LET key == CHOOSE k \in keys : TRUE
       IN forEachField(
            fieldCallback(messages, key, entries[key], rulesList, labelsName),
            keys \ {key}, entries, rulesList, labelsName)

\* the map a pass would build were it to walk the rule table's keys, reading
\* each one's value from the form, instead of the form's entries
buildFromRuleTable(formValue, rulesList, labelsName) ==
  LET ruleKeys == IF rulesList = Undefined THEN {} ELSE DOMAIN rulesList
      values == [k \in ruleKeys |->
                   IF k \in DOMAIN formEntries(formValue)
                   THEN formEntries(formValue)[k] ELSE Undefined]
  IN forEachField(EmptyObject, ruleKeys, values, rulesList, labelsName)

\* the validationMessages map a pass builds from the snapshot
buildValidationMessages(formValue, rulesList, labelsName) ==
  forEachField(EmptyObject, DOMAIN formEntries(formValue),
               formEntries(formValue), rulesList, labelsName)

---------------------------------------------------------------------------
(* Inputs *)

Fields == {"email", "age"}

StringValues == {"", "abc", "a@b.co"}

\* FormValue = Date | string | number | boolean | string[] | null | undefined
FormValues ==
  {Undefined, Null} \cup {Str(s) : s \in StringValues}
    \cup {Num(0), Num(7), Bool(FALSE), Bool(TRUE)}
    \cup {Arr(<<>>), Arr(<<"x">>), DateOf(TRUE), DateOf(FALSE)}

\* the { ruleKey: ruleValue } entries a rule set is drawn from
RuleEntries ==
  {[key |-> "required", value |-> Bool(b)] : b \in BOOLEAN}
    \cup {[key |-> "requiredIf", value |-> v] :
            v \in {Fn("constTrue"), Fn("constFalse"), Fn("required"), Bool(TRUE)}}
    \cup {[key |-> "email", value |-> Fn("email")]}
    \cup {[key |-> "numeric", value |-> Fn(f)] : f \in {"constTrue", "constFalse"}}
    \cup {[key |-> "custom", value |-> Fn("required")]}

\* sequences of exactly n entries
RECURSIVE EntrySeqs(_)
EntrySeqs(n) ==
  IF n = 0 THEN {<<>>}
  ELSE {Append(es, e) : es \in EntrySeqs(n - 1), e \in RuleEntries}

\* an object has each key once
DistinctKeys(es) ==
  \A i, j \in 1..Len(es) : es[i].key = es[j].key => i = j

RuleSets ==
  {RuleSet(es) : es \in {x \in UNION {EntrySeqs(n) : n \in 0..MaxRules} :
                           DistinctKeys(x)}}

\* snapshots of the one-field forms the rule evaluator is exercised on
EvalForms == {("email" :> v) : v \in FormValues}
EvalRules == {("email" :> rs) : rs \in RuleSets}
EvalLabels == {Undefined, ("email" :> Str("")), ("email" :> Str("Email"))}

\* records with some of the fields as keys and values from vals
Records(vals) == UNION {[ks -> vals] : ks \in SUBSET Fields}

\* snapshots the controller is driven with
CtlForms == {Undefined} \cup Records({Str(""), Str("abc")})
CtlRules ==
  {Undefined}
    \cup Records({RuleSet(<<[key |-> "required", value |-> Bool(TRUE)]>>)})
CtlLabels == {Undefined, ("email" :> Str("Email"))}

\* string[] arguments of setErrorMessage: up to n different messages
Messages == {"bad", "taken"}

RECURSIVE MessageArrays(_)
MessageArrays(n) ==
  IF n = 0 THEN {<<>>}
  ELSE MessageArrays(n - 1)
         \cup {Append(a, m) : a \in {x \in MessageArrays(n - 1) : Len(x) = n - 1},
                             m \in Messages}

ErrorInputs ==
  {EmptyObject} \cup {("email" :> a) : a \in MessageArrays(MaxErrors)}

\* arguments of setGenericError; Undefined is the call without an argument
GenericInputs == {Undefined, Str("Oops")}

---------------------------------------------------------------------------
(* Controller *)

\* errors[error].join(', ')
RECURSIVE Join(_, _)
Join(a, sep) ==
  IF Len(a) = 0 THEN ""
  ELSE IF Len(a) = 1 THEN a[1]
  ELSE a[1] \o sep \o Join(Tail(a), sep)

\* const errorMessages = ref({}); generalErrorMessage = ref(''); isFormValid = ref(false)
useForm ==
  /\ errorMessages = EmptyObject
  /\ generalErrorMessage = ""
  /\ isFormValid = FALSE
  /\ validationMessages = EmptyObject
  /\ lastOp = "useForm"
  /\ passes = 0

setErrorMessage(errors) ==
  /\ errorMessages' = [error \in DOMAIN errors |-> Str(Join(errors[error], ", "))]
  /\ lastOp' = "setErrorMessage"
  /\ passes' = 0
  /\ UNCHANGED <<form, rules, labels, generalErrorMessage, isFormValid,
                 validationMessages>>

setGenericError(message) ==
  /\ generalErrorMessage' = (IF message = Undefined THEN "Error" ELSE message.s)
  /\ lastOp' = "setGenericError"
  /\ passes' = 0
  /\ UNCHANGED <<form, rules, labels, errorMessages, isFormValid,
                 validationMessages>>

\* resetError as it would be without its second assignment
resetErrorMessagesOnly ==
  /\ errorMessages' = EmptyObject
  /\ lastOp' = "resetError"
  /\ passes' = 0
  /\ UNCHANGED <<form, rules, labels, generalErrorMessage, isFormValid,
                 validationMessages>>

resetError ==
  /\ errorMessages' = EmptyObject
  /\ generalErrorMessage' = ""
  /\ lastOp' = "resetError"
  /\ passes' = 0
  /\ UNCHANGED <<form, rules, labels, isFormValid, validationMessages>>

\* the flag as it would be were it computed from the exposed cell
noFailureOfCell(messages) == Cardinality(DOMAIN errorMessages) = 0

\* isFormValid.value = !Object.keys(validationMessages).length
noFailure(messages) == Cardinality(DOMAIN messages) = 0

\* the publication as it would be were the flag read before the pass sets it
publishErrorsStaleFlag(valid, messages, current) ==
  IF ~isFormValid THEN messages ELSE current

\* the publication as it would be with the test on the flag inverted
publishErrorsInverted(valid, messages, current) ==
  IF valid THEN messages ELSE current

\* the publication as it would be without the test on the flag
publishErrorsAlways(valid, messages, current) == messages

\* if (!isFormValid.value) { errorMessages.value = validationMessages }
publishErrors(valid, messages, current) ==
  IF ~valid THEN messages ELSE current

triggerFormValidationManual ==
  LET messages == buildValidationMessages(form, rules, labels)
  IN /\ validationMessages' = messages
     /\ isFormValid' = noFailure(messages)
     /\ errorMessages' = publishErrors(noFailure(messages), messages, errorMessages)
     /\ lastOp' = "triggerFormValidationManual"
     /\ passes' = IF passes < MaxPasses THEN passes + 1 ELSE passes
     /\ UNCHANGED <<form, rules, labels, generalErrorMessage>>

\* The caller writes a Ref it handed to useForm as form, rules or labels; the
\* next pass reads it through unref.
writeForm(formValue) ==
  /\ form' = formValue
  /\ lastOp' = "writeForm"
  /\ passes' = 0
  /\ UNCHANGED <<rules, labels, errorMessages, generalErrorMessage, isFormValid,
                 validationMessages>>

writeRules(rulesList) ==
  /\ rules' = rulesList
  /\ lastOp' = "writeRules"
  /\ passes' = 0
  /\ UNCHANGED <<form, labels, errorMessages, generalErrorMessage, isFormValid,
                 validationMessages>>

writeLabels(labelsName) ==
  /\ labels' = labelsName
  /\ lastOp' = "writeLabels"
  /\ passes' = 0
  /\ UNCHANGED <<form, rules, errorMessages, generalErrorMessage, isFormValid,
                 validationMessages>>

---------------------------------------------------------------------------
(* Specifications *)

\* the controller, constructed over any snapshot and driven by its operations
Init ==
  /\ form \in CtlForms
  /\ rules \in CtlRules
  /\ labels \in CtlLabels
  /\ useForm

Next ==
  \/ \E errors \in ErrorInputs : setErrorMessage(errors)
  \/ \E message \in GenericInputs : setGenericError(message)
  \/ resetError
  \/ triggerFormValidationManual
  \/ \E formValue \in CtlForms : writeForm(formValue)
  \/ \E rulesList \in CtlRules : writeRules(rulesList)
  \/ \E labelsName \in CtlLabels : writeLabels(labelsName)

Spec == Init /\ [][Next]_vars

\* the rule evaluator: a validation pass over every one-field snapshot
EvalInit ==
  /\ form \in EvalForms
  /\ rules \in EvalRules
  /\ labels \in EvalLabels
  /\ useForm

EvalNext == triggerFormValidationManual

EvalSpec == EvalInit /\ [][EvalNext]_vars

---------------------------------------------------------------------------
(* Properties *)

\* the state right after a validation pass
AfterPass == lastOp = "triggerFormValidationManual"

\* key is an own key of the record obj
HasKey(obj, key) == obj # Undefined /\ key \in DOMAIN obj

\* the field has a value and a rule set whose required flag is true and whose
\* requiredIf is no function
LiteralRequired(key) ==
  /\ HasKey(form, key)
  /\ HasKey(rules, key)
  /\ RuleValue(rules[key], "required") = Bool(TRUE)
  /\ RuleValue(rules[key], "requiredIf").t # "function"

\* the field has a value and a rule set whose requiredIf is a function
ConditionalRequired(key) ==
  /\ HasKey(form, key)
  /\ HasKey(rules, key)
  /\ RuleValue(rules[key], "requiredIf").t = "function"

RequiredMessage(key) ==
  Str(getFieldErrorMessage(labelOf(labels, key), "required", Undefined))

\* C1: after a pass, every field with required: true (no function requiredIf)
\* and a falsy value has the required message "The {label or 'field'} is
\* required" in the error map, whatever other rules it declares and in
\* whatever order.
C1_RequiredMessagePreempts ==
  AfterPass =>
    \A key \in Fields :
      (LiteralRequired(key) /\ ~Truthy(form[key])) =>
        /\ HasKey(errorMessages, key)
        /\ errorMessages[key] = RequiredMessage(key)

\* C2: every key a pass puts into the error map carries a message string,
\* never undefined.
C2_EveryEntryIsAString ==
  AfterPass =>
    \A key \in DOMAIN validationMessages : validationMessages[key].t = "string"

\* C3: where requiredIf is a function its result on the value is the
\* effective required state and the required flag is ignored: when it returns
\* false a falsy value gets no message from the required short-circuit, when
\* it returns true a falsy value makes the field invalid.
C3_RequiredIfOverrides ==
  AfterPass =>
    \A key \in Fields :
      (ConditionalRequired(key) /\ ~Truthy(form[key])) =>
        IF Apply(RuleValue(rules[key], "requiredIf").f, form[key])
        THEN /\ HasKey(validationMessages, key)
             /\ ~isFormValid
             /\ HasKey(errorMessages, key)
        ELSE ~(/\ HasKey(validationMessages, key)
               /\ validationMessages[key].t = "string")

\* C3 witness: required: true next to a requiredIf that returns false on a
\* falsy value, and the pass reports nothing for the field.
C3_Witness ==
  /\ AfterPass
  /\ ConditionalRequired("email")
  /\ RuleValue(rules["email"], "required") = Bool(TRUE)
  /\ ~Truthy(form["email"])
  /\ ~Apply(RuleValue(rules["email"], "requiredIf").f, form["email"])
  /\ ~HasKey(validationMessages, "email")
  /\ isFormValid

\* C4: a pass never puts a field without an entry in the rule table into the
\* error map; with no rule table, or none of the form's fields in it, the
\* pass builds an empty map and sets the flag to true.
C4_NoRulesNoError ==
  AfterPass =>
    /\ \A key \in Fields :
         ~HasKey(rules, key) =>
           /\ ~HasKey(validationMessages, key)
           /\ ~isFormValid => ~HasKey(errorMessages, key)
    /\ (\A key \in Fields : HasKey(form, key) => ~HasKey(rules, key)) =>
         /\ validationMessages = EmptyObject
         /\ isFormValid

\* C4 witness: a pass over a form with a falsy value and no rule table, while
\* the cell holds injected errors.
C4_Witness ==
  /\ AfterPass
  /\ rules = Undefined
  /\ HasKey(form, "email")
  /\ ~Truthy(form["email"])
  /\ HasKey(errorMessages, "email")
  /\ validationMessages = EmptyObject
  /\ isFormValid

\* C5: a pass that follows a pass, with nothing in between, leaves the error
\* map cell, the validity flag and the form-level message as the first left
\* them.
C5_Idempotent ==
  [][passes' >= 2 =>
       /\ errorMessages' = errorMessages
       /\ isFormValid' = isFormValid
       /\ generalErrorMessage' = generalErrorMessage]_vars

\* C5 witness: two passes in a row over an invalid form.
C5_Witness ==
  /\ passes >= 2
  /\ ~isFormValid
  /\ errorMessages # EmptyObject

\* C6 as claimed: right after a pass the flag is true iff the exposed error
\* map cell is empty.
C6_ValidIffCellEmpty ==
  AfterPass => (isFormValid <=> errorMessages = EmptyObject)

\* C6 amended: right after a pass the flag is true iff the map built by that
\* pass is empty; a false flag comes with the cell holding that non-empty
\* map, so an empty cell implies a true flag, while a true flag may come with
\* a non-empty cell.
C6_ValidIffBuiltEmpty ==
  AfterPass =>
    /\ isFormValid <=> validationMessages = EmptyObject
    /\ ~isFormValid =>
         /\ errorMessages = validationMessages
         /\ errorMessages # EmptyObject
    /\ errorMessages = EmptyObject => isFormValid

\* C6 witness: a pass that evaluates a required field, finds the form valid
\* and leaves the injected errors in the cell.
C6_Witness ==
  /\ AfterPass
  /\ LiteralRequired("email")
  /\ isFormValid
  /\ validationMessages = EmptyObject
  /\ errorMessages # EmptyObject

\* C7: resetError leaves the error map cell empty and the form-level message
\* the empty string.
C7_ResetClears ==
  lastOp = "resetError" =>
    /\ errorMessages = EmptyObject
    /\ generalErrorMessage = ""

\* C7 witness: resetError after a failing pass had filled the cell.
C7_Witness ==
  /\ lastOp = "resetError"
  /\ ~isFormValid
  /\ validationMessages # EmptyObject
  /\ errorMessages = EmptyObject

\* C8: a pass that finds the form valid leaves the cell and the form-level
\* message as they were; a pass that finds it invalid replaces the cell by the
\* map it built, and nothing of the previous cell is left.
C8_PublishOnlyWhenInvalid ==
  [][lastOp' = "triggerFormValidationManual" =>
       /\ generalErrorMessage' = generalErrorMessage
       /\ isFormValid' <=> validationMessages' = EmptyObject
       /\ IF isFormValid'
          THEN errorMessages' = errorMessages
          ELSE errorMessages' = validationMessages']_vars

\* C8 witness: a valid pass that left injected errors in the cell.
C8_Witness ==
  /\ AfterPass
  /\ isFormValid
  /\ HasKey(errorMessages, "email")
  /\ errorMessages["email"] = Str("bad, taken")
  /\ generalErrorMessage = "Oops"

\* the values the required short-circuit is claimed to take for falsy
ClaimedFalsy == {Undefined, Str(""), Num(0), Bool(FALSE), Arr(<<>>)}

\* C9: a field whose effective required state is true and whose value is
\* absent, "", 0, false or the empty sequence is reported invalid by a pass.
C9_FalsyValuesAreRequired ==
  AfterPass =>
    \A key \in Fields :
      (/\ HasKey(form, key)
       /\ HasKey(rules, key)
       /\ isFieldRequired(rules[key], form[key])
       /\ form[key] \in ClaimedFalsy) =>
        /\ HasKey(validationMessages, key)
        /\ ~isFormValid

\* C10: a pass evaluates the keys of the values record only: a field with a
\* rule set and no key in the record gets no entry and does not make the
\* form invalid; an empty or absent record is valid.
C10_OnlyFormKeys ==
  AfterPass =>
    /\ \A key \in Fields : ~HasKey(form, key) => ~HasKey(validationMessages, key)
    /\ (\A key \in Fields : ~HasKey(form, key)) =>
         /\ validationMessages = EmptyObject
         /\ isFormValid

\* C10 witness: a valid pass over a form without the key of a required field.
C10_Witness ==
  /\ AfterPass
  /\ HasKey(rules, "age")
  /\ RuleValue(rules["age"], "required") = Bool(TRUE)
  /\ ~HasKey(form, "age")
  /\ isFormValid

====
